---------------------------- MODULE Spec2Model ----------------------------
(***************************************************************************)
(* Keeper Commander: the session store (KeeperParams), the endpoint        *)
(* resolver (RestApiContext) and the bootstrap (main) of                   *)
(* keepercommander/params.py and keepercommander/__main__.py.              *)
(*                                                                         *)
(* Python values are represented as follows.                               *)
(*   str    a sequence of one-character strings ('EU' is <<"E", "U">>)     *)
(*   None   the value None below, for every str-or-None field              *)
(*   bytes  a sequence of integers 0..255                                  *)
(*   dict   a function whose domain is a set of key strings                *)
(*   list   a sequence                                                     *)
(*   set    a set                                                          *)
(* A dict-or-None field holds NoneD for None.                              *)
(***************************************************************************)
EXTENDS Integers, Sequences, FiniteSets, TLC

VARIABLES opts, from_package, env, fs, todo,
          pc, params, command, flags, logging, stdout, exc, exit_code, calls,
          last, prev

vars == <<opts, from_package, env, fs, todo,
          pc, params, command, flags, logging, stdout, exc, exit_code, calls,
          last, prev>>

None == <<"None">>
NoneD == [None |-> TRUE]
EmptyDict == <<>>

\* Python truthiness of a str-or-None value.
Truthy(s) == s # None /\ s # <<>>

-----------------------------------------------------------------------------
(* String literals of the source.                                          *)

S_https == <<"h", "t", "t", "p", "s">>
S_rest_path == <<"/", "a", "p", "i", "/", "r", "e", "s", "t", "/">>
S_host_com == <<"k", "e", "e", "p", "e", "r", "s", "e", "c", "u", "r", "i", "t", "y", ".", "c", "o", "m">>
S_host_eu == <<"k", "e", "e", "p", "e", "r", "s", "e", "c", "u", "r", "i", "t", "y", ".", "e", "u">>
S_v2_prefix == <<"h", "t", "t", "p", "s", ":", "/", "/">>
S_v2_suffix == <<"/", "a", "p", "i", "/", "v", "2", "/">>
S_COM == <<"C", "O", "M">>
S_EU == <<"E", "U">>
S_device_token == <<"d", "e", "v", "i", "c", "e", "_", "t", "o", "k", "e", "n">>
S_TRUE == <<"T", "R", "U", "E">>
S_shell == <<"s", "h", "e", "l", "l">>
S_dash == <<"-">>
S_help == <<"?">>
S_q == <<"q">>
S_h_flag == <<"-", "h">>
S_space == <<" ">>
S_sep == <<" ", "-", "-", " ">>
S_config_json == <<"c", "o", "n", "f", "i", "g", ".", "j", "s", "o", "n">>

-----------------------------------------------------------------------------
(* The library functions the source calls, computed as the library does.   *)

LowerLetters == <<"a", "b", "c", "d", "e", "f", "g", "h", "i", "j", "k", "l", "m",
                  "n", "o", "p", "q", "r", "s", "t", "u", "v", "w", "x", "y", "z">>
UpperLetters == <<"A", "B", "C", "D", "E", "F", "G", "H", "I", "J", "K", "L", "M",
                  "N", "O", "P", "Q", "R", "S", "T", "U", "V", "W", "X", "Y", "Z">>
Digits == {"0", "1", "2", "3", "4", "5", "6", "7", "8", "9"}
Range(s) == {s[i] : i \in DOMAIN s}
Letters == Range(LowerLetters) \cup Range(UpperLetters)

upper_char(c) ==
    IF \E i \in DOMAIN LowerLetters : LowerLetters[i] = c
    THEN UpperLetters[CHOOSE i \in DOMAIN LowerLetters : LowerLetters[i] = c]
    ELSE c

lower_char(c) ==
    IF \E i \in DOMAIN UpperLetters : UpperLetters[i] = c
    THEN LowerLetters[CHOOSE i \in DOMAIN UpperLetters : UpperLetters[i] = c]
    ELSE c

\* str.upper() and str.lower()
upper(s) == [i \in DOMAIN s |-> upper_char(s[i])]
lower(s) == [i \in DOMAIN s |-> lower_char(s[i])]

\* str.find(c) for a one-character c, 1-based; 0 when c does not occur.
find(s, c) ==
    IF \E i \in DOMAIN s : s[i] = c
    THEN CHOOSE i \in DOMAIN s : s[i] = c /\ \A j \in 1..(i - 1) : s[j] # c
    ELSE 0

\* s[i:] and s[:i] with Python's 0-based offsets
from(s, i) == SubSeq(s, i + 1, Len(s))
upto(s, i) == SubSeq(s, 1, i)

\* str.startswith(prefix)
startswith(s, prefix) ==
    Len(prefix) <= Len(s) /\ upto(s, Len(prefix)) = prefix

\* Index (1-based) of the first of '/', '?', '#' at or after position k, else Len(s) + 1
first_delim(s, k) ==
    IF \E i \in k..Len(s) : s[i] \in {"/", "?", "#"}
    THEN CHOOSE i \in k..Len(s) :
            s[i] \in {"/", "?", "#"} /\ \A j \in k..(i - 1) : s[j] \notin {"/", "?", "#"}
    ELSE Len(s) + 1

\* The part of s before the first occurrence of c (all of s when c does not occur)
before(s, c) == IF find(s, c) = 0 THEN s ELSE upto(s, find(s, c) - 1)

\* urllib.parse.urlparse(url): the scheme, netloc and path components
urlparse(url) ==
    LET i == find(url, ":")
        has_scheme ==
            /\ i > 1
            /\ url[1] \in Letters
            /\ \A j \in 1..(i - 1) : url[j] \in Letters \cup Digits \cup {"+", "-", "."}
        scheme == IF has_scheme THEN lower(upto(url, i - 1)) ELSE <<>>
        rest == IF has_scheme THEN from(url, i) ELSE url
        has_netloc == startswith(rest, <<"/", "/">>)
        delim == first_delim(rest, 3)
        netloc == IF has_netloc THEN SubSeq(rest, 3, delim - 1) ELSE <<>>
        tail == IF has_netloc THEN from(rest, delim - 1) ELSE rest
    IN  [scheme |-> scheme, netloc |-> netloc, path |-> before(before(tail, "#"), "?")]

\* urllib.parse.urlunparse((scheme, netloc, path, None, None, None))
urlunparse(scheme, netloc, path) ==
    LET with_netloc ==
            IF netloc # <<>> \/ (scheme # <<>> /\ ~startswith(path, <<"/", "/">>))
            THEN <<"/", "/">> \o netloc
                 \o (IF path # <<>> /\ path[1] # "/" THEN <<"/">> ELSE <<>>) \o path
            ELSE path
    IN  IF scheme # <<>> THEN scheme \o <<":">> \o with_netloc ELSE with_netloc

\* ' '.join(parts)
RECURSIVE join(_, _)
join(sep, parts) ==
    IF parts = <<>> THEN <<>>
    ELSE IF Len(parts) = 1 THEN parts[1]
    ELSE parts[1] \o sep \o join(sep, Tail(parts))

\* shlex.quote(s): s itself when it is non-empty and holds only safe
\* characters, else s in single quotes with each ' written as '"'"'
SafeChars == Letters \cup Digits \cup {"_", "@", "%", "+", "=", ":", ",", ".", "/", "-"}

RECURSIVE escape_quotes(_)
escape_quotes(s) ==
    IF s = <<>> THEN <<>>
    ELSE (IF s[1] = "'" THEN <<"'", "\"", "'", "\"", "'">> ELSE <<s[1]>>)
         \o escape_quotes(Tail(s))

shlex_quote(s) ==
    IF s = <<>> THEN <<"'", "'">>
    ELSE IF \A i \in DOMAIN s : s[i] \in SafeChars THEN s
    ELSE <<"'">> \o escape_quotes(s) \o <<"'">>


\* The URL-safe base64 alphabet: 'A'..'Z', 'a'..'z', '0'..'9', '-', '_'
B64Alphabet == UpperLetters \o LowerLetters
               \o <<"0", "1", "2", "3", "4", "5", "6", "7", "8", "9", "-", "_">>

b64_value(c) == (CHOOSE i \in DOMAIN B64Alphabet : B64Alphabet[i] = c) - 1

RECURSIVE b64_bytes(_)
b64_bytes(v) ==
    LET b1 == v[1] * 4 + v[2] \div 16
        b2 == (v[2] % 16) * 16 + v[3] \div 4
        b3 == (v[3] % 4) * 64 + v[4]
    IN  IF Len(v) >= 4 THEN <<b1, b2, b3>> \o b64_bytes(SubSeq(v, 5, Len(v)))
        ELSE IF Len(v) = 3 THEN <<b1, b2>>
        ELSE IF Len(v) = 2 THEN <<b1>>
        ELSE <<>>

\* base64.urlsafe_b64decode(s + '==') for s over the alphabet: binascii.Error
\* when the number of data characters is 1 more than a multiple of 4
urlsafe_b64decode_padded(s) ==
    IF Len(s) % 4 = 1
    THEN [ok |-> FALSE, exc |-> "binascii.Error"]
    ELSE [ok |-> TRUE, bytes |-> b64_bytes([i \in DOMAIN s |-> b64_value(s[i])])]

-----------------------------------------------------------------------------
(* The logging module: the root logger's level and whether it has a        *)
(* handler, and the records it has emitted.                                *)

DEBUG == 10
INFO == 20
WARNING == 30
ERROR == 40

\* logging.debug/info/warning/error(msg): the module-level functions give the
\* root logger a handler when it has none, and emit at or above its level
log_msg(w, level, msg) ==
    [w EXCEPT !.handlers = TRUE,
              !.records = IF level >= w.level
                          THEN Append(@, [level |-> level, msg |-> msg])
                          ELSE @]

\* logging.getLogger().setLevel(level)
setLevel(w, level) == [w EXCEPT !.level = level]

\* logging.basicConfig(level=level): nothing when the root logger has a handler
basicConfig(w, level) ==
    IF w.handlers THEN w ELSE [w EXCEPT !.handlers = TRUE, !.level = level]

-----------------------------------------------------------------------------
(* RestApiContext                                                          *)

KeeperRegion == {"COM", "EU"}
DEFAULT_REGION == "COM"

REGION_SERVERS == [COM |-> S_host_com, EU |-> S_host_eu]

RegionName(r) == IF r = "COM" THEN S_COM ELSE S_EU

\* RestApiContext.__init__ looking the region name up without region.upper()
RestApiContext_init_case_sensitive(region, server, device_id, w) ==
    LET known == \E r \in KeeperRegion : RegionName(r) = region
    IN  [ctx |-> [region |-> IF Truthy(region) /\ known
                             THEN CHOOSE r \in KeeperRegion : RegionName(r) = region
                             ELSE "COM",
                  transmission_key |-> None,
                  server_key_id |-> 1,
                  locale |-> "en_US",
                  device_id |-> device_id,
                  store_server_key |-> FALSE],
         w |-> IF Truthy(region) /\ ~known THEN log_msg(w, WARNING, "Unknown region") ELSE w]

\* RestApiContext.__init__(region, server=server, device_id=device_id), with the
\* state w of the logging module: the object built and the logging state after
RestApiContext_init(region, server, device_id, w) ==
    LET name == upper(region)
        known == \E r \in KeeperRegion : RegionName(r) = name
        netloc == lower(urlparse(server).netloc)
        matched == \E r \in KeeperRegion : REGION_SERVERS[r] = netloc
        w_dbg == log_msg(w, DEBUG, "Update config.json region")
        chosen ==
            IF Truthy(region)
            THEN IF known
                 THEN [region |-> CHOOSE r \in KeeperRegion : RegionName(r) = name,
                       w |-> w]
                 ELSE [region |-> "COM",
                       w |-> log_msg(w, WARNING, "Unknown region")]
            ELSE IF Truthy(server)
            THEN IF matched
                 THEN [region |-> CHOOSE r \in KeeperRegion : REGION_SERVERS[r] = netloc,
                       w |-> w_dbg]
                 ELSE [region |-> "COM",
                       w |-> log_msg(w_dbg, WARNING, "Unrecognized domain")]
            ELSE [region |-> "COM", w |-> w]
    IN  [ctx |-> [region |-> chosen.region,
                  transmission_key |-> None,
                  server_key_id |-> 1,
                  locale |-> "en_US",
                  device_id |-> device_id,
                  store_server_key |-> FALSE],
         w |-> chosen.w]

\* RestApiContext.server_key_id = key_id
set_server_key_id(ctx, key_id) ==
    [ctx EXCEPT !.server_key_id = key_id, !.store_server_key = TRUE]

\* RestApiContext.device_id = device_id, without the store_server_key mark
set_device_id_unmarked(ctx, device_id) == [ctx EXCEPT !.device_id = device_id]

\* RestApiContext.device_id = device_id
set_device_id(ctx, device_id) ==
    [ctx EXCEPT !.device_id = device_id, !.store_server_key = TRUE]

\* RestApiContext.store_server_key (read)
store_server_key(ctx) == ctx.store_server_key

\* RestApiContext.server_base (read)
server_base(ctx) == urlunparse(S_https, REGION_SERVERS[ctx.region], S_rest_path)

-----------------------------------------------------------------------------
(* KeeperParams                                                            *)

\* A keyword argument of the constructor: the configuration's value, or the
\* parameter's default
Arg(config, key, default) == IF key \in DOMAIN config THEN config[key] ELSE default

KnownKeys == {"user", "server", "region", "password", "timedelay", "mfa_token",
              "mfa_type", "commands", "plugins", "debug", "batch_mode", "device_id",
              "logout_timer", "login_v3", "private_key"}

\* type(x) is list and all(type(e) is dict for e in x)
IsListOfDicts(x) ==
    x.type = "list" /\ \A i \in DOMAIN x.items : x.items[i].type = "dict"

\* KeeperParams.__init__(config_filename, **config): the session store built, or
\* the exception raised, and the logging state after
KeeperParams_init(config_filename, config, w) ==
    LET debug == Arg(config, "debug", FALSE)
        mfa_type0 == Arg(config, "mfa_type", <<>>)
        mfa_type == IF mfa_type0 = <<>> THEN S_device_token ELSE mfa_type0
        w1 == IF debug THEN log_msg(setLevel(w, DEBUG), DEBUG, "Debug ON") ELSE w
        decoded == urlsafe_b64decode_padded(Arg(config, "device_id", <<>>))
        rc == RestApiContext_init(Arg(config, "region", None),
                                  Arg(config, "server", None), decoded.bytes, w1)
    IN  IF "commands" \in DOMAIN config /\ ~IsListOfDicts(config["commands"])
        THEN [ok |-> FALSE, exc |-> "AssertionError", w |-> w]
        ELSE IF "plugins" \in DOMAIN config /\ ~IsListOfDicts(config["plugins"])
        THEN [ok |-> FALSE, exc |-> "AssertionError", w |-> w]
        ELSE IF ~decoded.ok
        THEN [ok |-> FALSE, exc |-> decoded.exc, w |-> w1]
        ELSE [ok |-> TRUE,
              w |-> rc.w,
              params |->
               [config_filename |-> config_filename,
                config |-> [k \in DOMAIN config \ KnownKeys |-> config[k]],
                auth_verifier |-> None,
                server |-> server_base(rc.ctx),
                user |-> lower(Arg(config, "user", <<>>)),
                password |-> Arg(config, "password", <<>>),
                mfa_token |-> Arg(config, "mfa_token", <<>>),
                mfa_type |-> mfa_type,
                commands |-> <<>>,
                plugins |-> <<>>,
                session_token |-> None,
                salt |-> None,
                iterations |-> 0,
                data_key |-> None,
                rsa_key |-> None,
                revision |-> 0,
                record_cache |-> EmptyDict,
                meta_data_cache |-> EmptyDict,
                shared_folder_cache |-> EmptyDict,
                team_cache |-> EmptyDict,
                key_cache |-> EmptyDict,
                available_team_cache |-> NoneD,
                subfolder_cache |-> EmptyDict,
                subfolder_record_cache |-> EmptyDict,
                non_shared_data_cache |-> EmptyDict,
                root_folder |-> None,
                current_folder |-> None,
                folder_cache |-> EmptyDict,
                debug |-> FALSE,
                timedelay |-> Arg(config, "timedelay", 0),
                sync_data |-> TRUE,
                license |-> NoneD,
                settings |-> NoneD,
                enforcements |-> NoneD,
                enterprise |-> NoneD,
                enterprise_id |-> 0,
                msp_tree_key |-> None,
                prepare_commands |-> FALSE,
                batch_mode |-> Arg(config, "batch_mode", FALSE),
                device_id |-> decoded.bytes,
                rest_context |-> rc.ctx,
                pending_share_requests |-> {},
                environment_variables |-> EmptyDict,
                record_history |-> EmptyDict,
                event_queue |-> <<>>,
                logout_timer |-> Arg(config, "logout_timer", 0),
                login_v3 |-> Arg(config, "login_v3", TRUE),
                clone_code |-> None,
                device_token |-> None,
                device_private_key |-> Arg(config, "private_key", <<>>)]]

\* os.getenv(name, default)
getenv(e, name, default) == IF name \in DOMAIN e THEN e[name] ELSE default

\* The path KeeperParams.from_config(config_filename) reads
config_path(e, config_filename) ==
    getenv(e, "KEEPER_CONFIG_FILE",
           IF Truthy(config_filename) THEN config_filename ELSE S_config_json)

\* from_config letting the parse error of a malformed file escape
from_config_raises(e, f, config_filename, w) ==
    LET path == config_path(e, config_filename)
    IN  IF path \in DOMAIN f /\ f[path].state = "malformed"
        THEN [ok |-> FALSE, exc |-> "JSONDecodeError", w |-> w]
        ELSE KeeperParams_init(path,
                               IF path \in DOMAIN f /\ f[path].state = "ok"
                               THEN f[path].json ELSE EmptyDict,
                               w)

\* from_config keeping the configured commands in the store
from_config_keeps_commands(e, f, config_filename, w) ==
    LET path == config_path(e, config_filename)
        cfg == IF path \in DOMAIN f /\ f[path].state = "ok" THEN f[path].json ELSE EmptyDict
        r == KeeperParams_init(path, cfg, w)
    IN  IF r.ok /\ "commands" \in DOMAIN cfg
        THEN [r EXCEPT !.params.commands = cfg["commands"].items]
        ELSE r

\* KeeperParams.from_config(config_filename) in environment e and file system f
from_config(e, f, config_filename, w) ==
    LET path == config_path(e, config_filename)
        exists == path \in DOMAIN f
        loaded ==
            IF ~exists
            THEN [config |-> EmptyDict, w |-> log_msg(w, DEBUG, "Parsed config JSON")]
            ELSE IF f[path].state = "unreadable"
            THEN [config |-> EmptyDict, w |-> log_msg(w, WARNING, "Unable to open config file")]
            ELSE IF f[path].state = "malformed"
            THEN [config |-> EmptyDict, w |-> log_msg(w, ERROR, "Unable to parse JSON")]
            ELSE [config |-> f[path].json, w |-> log_msg(w, DEBUG, "Parsed config JSON")]
    IN  KeeperParams_init(path, loaded.config, loaded.w)


\* clear_session without self.event_queue.clear()
clear_session_keeps_events(p) ==
    [p EXCEPT !.user = <<>>, !.password = <<>>, !.commands = <<>>,
              !.session_token = None, !.data_key = None, !.rsa_key = None,
              !.record_cache = EmptyDict, !.meta_data_cache = EmptyDict,
              !.shared_folder_cache = EmptyDict, !.team_cache = EmptyDict,
              !.key_cache = EmptyDict, !.subfolder_cache = EmptyDict,
              !.subfolder_record_cache = EmptyDict, !.non_shared_data_cache = EmptyDict,
              !.folder_cache = EmptyDict, !.root_folder = None, !.current_folder = None,
              !.license = NoneD, !.batch_mode = FALSE, !.pending_share_requests = {}]

\* clear_session with prepare_commands flipped instead of set
clear_session_flips(p) ==
    [p EXCEPT !.user = <<>>, !.password = <<>>, !.commands = <<>>,
              !.session_token = None, !.data_key = None, !.rsa_key = None,
              !.record_cache = EmptyDict, !.meta_data_cache = EmptyDict,
              !.shared_folder_cache = EmptyDict, !.team_cache = EmptyDict,
              !.key_cache = EmptyDict, !.subfolder_cache = EmptyDict,
              !.subfolder_record_cache = EmptyDict, !.non_shared_data_cache = EmptyDict,
              !.folder_cache = EmptyDict, !.root_folder = None, !.current_folder = None,
              !.license = NoneD, !.batch_mode = FALSE, !.pending_share_requests = {},
              !.event_queue = <<>>, !.prepare_commands = ~@]

\* KeeperParams.clear_session()
clear_session(p) ==
    [p EXCEPT !.auth_verifier = <<>>,
              !.user = <<>>,
              !.password = <<>>,
              !.mfa_type = S_device_token,
              !.mfa_token = <<>>,
              !.commands = <<>>,
              !.session_token = None,
              !.salt = None,
              !.iterations = 0,
              !.data_key = None,
              !.rsa_key = None,
              !.revision = 0,
              !.record_cache = EmptyDict,
              !.meta_data_cache = EmptyDict,
              !.shared_folder_cache = EmptyDict,
              !.team_cache = EmptyDict,
              !.available_team_cache = NoneD,
              !.key_cache = EmptyDict,
              !.subfolder_cache = EmptyDict,
              !.subfolder_record_cache = EmptyDict,
              !.non_shared_data_cache = EmptyDict,
              !.folder_cache = IF @ # EmptyDict THEN EmptyDict ELSE @,
              !.root_folder = None,
              !.current_folder = None,
              !.sync_data = TRUE,
              !.license = NoneD,
              !.settings = NoneD,
              !.enforcements = NoneD,
              !.enterprise = NoneD,
              !.enterprise_id = 0,
              !.msp_tree_key = None,
              !.prepare_commands = TRUE,
              !.batch_mode = FALSE,
              !.pending_share_requests = {},
              !.environment_variables = EmptyDict,
              !.record_history = EmptyDict,
              !.event_queue = <<>>,
              !.logout_timer = IF "logout_timer" \in DOMAIN p.config
                                  /\ p.config["logout_timer"] # 0
                               THEN p.config["logout_timer"] ELSE 0,
              !.clone_code = None,
              !.device_token = None,
              !.device_private_key = None]

AuditInputKeys == {"record_uid", "file_format", "attachment_id", "to_username"}

\* queue_audit_event with the attributes stored unfiltered
queue_audit_event_unfiltered(p, name, kwargs) ==
    IF /\ p.license # NoneD
       /\ p.license # EmptyDict
       /\ "account_type" \in DOMAIN p.license
       /\ p.license["account_type"] = 2
    THEN [p EXCEPT !.event_queue =
            Append(@, [audit_event_type |-> name, inputs |-> kwargs])]
    ELSE p

\* KeeperParams.queue_audit_event(name, **kwargs)
queue_audit_event(p, name, kwargs) ==
    IF /\ p.license # NoneD
       /\ p.license # EmptyDict
       /\ "account_type" \in DOMAIN p.license
       /\ p.license["account_type"] = 2
    THEN [p EXCEPT !.event_queue =
            Append(@, [audit_event_type |-> name,
                       inputs |-> [x \in DOMAIN kwargs \cap AuditInputKeys |-> kwargs[x]]])]
    ELSE p

\* rest_context.server_base = value: the property is declared with a getter
\* only, so the assignment raises AttributeError
set_server_base(ctx, value) == [ok |-> FALSE, exc |-> "AttributeError", ctx |-> ctx]

\* KeeperParams.server = value (__set_server)
set_server(p, value) ==
    LET p1 == [p EXCEPT !.server = value]
        r == set_server_base(p1.rest_context, value)
    IN  IF r.ok
        THEN [ok |-> TRUE, params |-> [p1 EXCEPT !.rest_context = r.ctx]]
        ELSE [ok |-> FALSE, exc |-> r.exc, params |-> p1]

\* KeeperParams.region (read): the property is built on __get_server
get_region(p) == p.server

\* KeeperParams.domain (read)
get_domain(p) == urlparse(p.server).netloc

\* KeeperParams.url (read)
get_url(p) ==
    LET url == urlparse(p.server)
    IN  urlunparse(url.scheme, url.netloc, <<"/">>)

\* KeeperParams.server (read)
get_server(p) == p.server

-----------------------------------------------------------------------------
(* main                                                                    *)

\* The overlay of the command-line options o and the environment e on the
\* session store p: the store after, or the exception raised and the store then
overlay(p, o, e, w) ==
    LET is_debug == w.level <= DEBUG
        w1 == IF o.debug
              THEN log_msg(setLevel(w, IF is_debug
                                       THEN (IF p.batch_mode THEN WARNING ELSE INFO)
                                       ELSE DEBUG),
                           INFO, "Debug")
              ELSE w
        p1 == IF o.debug THEN [p EXCEPT !.debug = o.debug] ELSE p
        p2 == IF o.batch_mode THEN [p1 EXCEPT !.batch_mode = TRUE] ELSE p1
        p3 == IF Truthy(o.login_v3)
              THEN [p2 EXCEPT !.login_v3 = startswith(S_TRUE, upper(o.login_v3))]
              ELSE p2
        s == set_server(p3, S_v2_prefix \o o.server \o S_v2_suffix)
        p4 == IF Truthy(o.server) THEN s.params ELSE p3
        p5 == IF Truthy(o.user) THEN [p4 EXCEPT !.user = o.user] ELSE p4
        pwd == getenv(e, "KEEPER_PASSWORD", None)
        p6 == IF Truthy(o.password) THEN [p5 EXCEPT !.password = o.password]
              ELSE IF Truthy(pwd) THEN [p5 EXCEPT !.password = pwd]
              ELSE p5
    IN  IF Truthy(o.server) /\ ~s.ok
        THEN [ok |-> FALSE, exc |-> s.exc, params |-> s.params, w |-> w1]
        ELSE [ok |-> TRUE, params |-> p6, w |-> w1]

\* The one-shot command line main synthesizes from the command, the
\* unrecognized flags and the options
one_shot(cmd, fl, options) ==
    LET flags_s == join(S_space, [i \in DOMAIN fl |-> shlex_quote(fl[i])])
        options_s == join(S_space, [i \in DOMAIN options |-> shlex_quote(options[i])])
        c == join(S_space, <<cmd, flags_s>>)
    IN  IF options_s # <<>> THEN c \o S_sep \o options_s ELSE c

\* The command queue and batch mode main hands to cli.loop
synthesize(p, cmd, fl, options) ==
    IF cmd \notin {S_shell, S_dash}
    THEN [p EXCEPT !.commands = (IF Truthy(cmd)
                                 THEN Append(@, one_shot(cmd, fl, options))
                                 ELSE @) \o <<S_q>>,
                   !.batch_mode = TRUE]
    ELSE IF cmd = S_dash THEN [p EXCEPT !.batch_mode = TRUE]
    ELSE p


-----------------------------------------------------------------------------
(* The inputs of a run: the parsed command line, the environment, the      *)
(* configuration files, and the number of operations the command loop's    *)
(* collaborators perform on the session.                                   *)

MaxOps == 3
MaxUIDs == 1
MaxDeviceIdLen == 5

User_bob == <<"B", "o", "b", "@", "X", ".", "i", "o">>
User_amy == <<"a", "m", "y", "@", "x", ".", "i", "o">>
User_eve == <<"E", "v", "e", "@", "x", ".", "i", "o">>
Pw_flag == <<"p", "w", "F">>
Pw_env == <<"p", "w", "E">>
Pw_cfg == <<"p", "w", "C">>
Cmd_list == <<"l", "i", "s", "t">>
Opt_a == <<"a">>
Opt_a_b == <<"a", " ", "b">>
Flag_x == <<"-", "-", "x">>
Path_flag == <<"f", ".", "j", "s", "o", "n">>
Path_env == <<"e", ".", "j", "s", "o", "n">>
Lv3_false == <<"f", "a", "l", "s", "e">>
Lv3_t == <<"t">>
Url_eu_v2 == <<"h", "t", "t", "p", "s", ":", "/", "/", "k", "e", "e", "p", "e", "r", "s", "e", "c", "u", "r", "i", "t", "y", ".", "e", "u", "/", "a", "p", "i", "/", "v", "2", "/">>
Url_eu_upper == <<"h", "t", "t", "p", "s", ":", "/", "/", "K", "e", "e", "p", "e", "r", "S", "e", "c", "u", "r", "i", "t", "y", ".", "E", "U", "/", "a", "p", "i", "/", "v", "2", "/">>
Url_eu_port == <<"h", "t", "t", "p", "s", ":", "/", "/", "k", "e", "e", "p", "e", "r", "s", "e", "c", "u", "r", "i", "t", "y", ".", "e", "u", ":", "4", "4", "3", "/", "a", "p", "i", "/", "v", "2", "/">>
Url_eu_bare == <<"k", "e", "e", "p", "e", "r", "s", "e", "c", "u", "r", "i", "t", "y", ".", "e", "u">>
Url_com_v2 == <<"h", "t", "t", "p", "s", ":", "/", "/", "k", "e", "e", "p", "e", "r", "s", "e", "c", "u", "r", "i", "t", "y", ".", "c", "o", "m", "/", "a", "p", "i", "/", "v", "2", "/">>
Url_other == <<"h", "t", "t", "p", "s", ":", "/", "/", "e", "x", "a", "m", "p", "l", "e", ".", "o", "r", "g", "/", "a", "p", "i", "/", "v", "2", "/">>

NoOpts == [server |-> None, user |-> None, password |-> None, version |-> FALSE,
           config |-> None, debug |-> FALSE, batch_mode |-> FALSE, login_v3 |-> None,
           command |-> None, options |-> <<>>, flags |-> <<>>]

NoEnv == <<>>

\* The file system holding the configuration c at the default path
DefaultFs(c) == (S_config_json :> [state |-> "ok", json |-> c])

\* The restriction of the dict d to the keys K
Restrict(d, K) == [k \in K |-> d[k]]
SubDicts(d) == {Restrict(d, K) : K \in SUBSET DOMAIN d}

Input(o, pkg, e, f, n) == [opts |-> o, from_package |-> pkg, env |-> e, fs |-> f, todo |-> n]

\* Every case of a region name, and hints that name no region
CaseVariants(s) == {v \in [DOMAIN s -> Range(s) \cup Range(lower(s))] : upper(v) = s}
RegionHints == CaseVariants(S_COM) \cup CaseVariants(S_EU)
               \cup {<<"U", "S">>, <<"u", "s">>, <<"C", "O">>, <<"e", "u", "r">>, <<" ">>}
ServerUrls == {Url_eu_v2, Url_eu_upper, Url_eu_port, Url_eu_bare, Url_com_v2, Url_other}

\* Every device_id string of up to MaxDeviceIdLen characters of 'Q' and '_'
DeviceIds == UNION {[1..n -> {"Q", "_"}] : n \in 0..MaxDeviceIdLen}

PyList(items) == [type |-> "list", items |-> items]
PyDict == [type |-> "dict"]
PyStr == [type |-> "str"]
ListValues == {PyList(<<>>), PyList(<<PyDict>>), PyList(<<PyStr>>),
               PyList(<<PyDict, PyStr>>), PyList(<<PyDict, PyDict>>), PyDict, PyStr}

FullConfig == [user |-> User_eve, password |-> Pw_cfg, debug |-> TRUE, batch_mode |-> TRUE,
               login_v3 |-> FALSE, server |-> Url_eu_v2]
FullEnv == [KEEPER_USER |-> User_amy, KEEPER_PASSWORD |-> Pw_env]
RichConfig == [user |-> User_eve, password |-> Pw_cfg, device_id |-> <<"Q", "_">>,
               login_v3 |-> FALSE, logout_timer |-> 5, mfa_type |-> <<"s", "m", "s">>,
               theme |-> <<"d", "a", "r", "k">>, region |-> <<"e", "u">>]

\* The overlay: every combination of the overlaid flags over a bare and a full
\* environment and configuration, and every configuration and environment
\* under no flag
OverlayInputs ==
    {Input([NoOpts EXCEPT !.server = sv, !.user = us, !.password = pw, !.debug = dbg,
                          !.batch_mode = bm, !.login_v3 = lv, !.command = S_shell],
           FALSE, e, DefaultFs(c), 0) :
        sv \in {None, S_host_eu}, us \in {None, User_bob}, pw \in {None, Pw_flag},
        dbg \in BOOLEAN, bm \in BOOLEAN, lv \in {None, Lv3_false, Lv3_t},
        e \in {NoEnv, FullEnv}, c \in {EmptyDict, FullConfig}}
    \cup
    {Input([NoOpts EXCEPT !.command = S_shell], FALSE, e, DefaultFs(c), 0) :
        e \in SubDicts(FullEnv), c \in SubDicts(FullConfig)}

\* The run mode: the version flag, the command, its options, unrecognized
\* flags, packaged mode, a scheduled configuration, and the server flag
RunModeInputs ==
    {i \in
     {Input([NoOpts EXCEPT !.version = v, !.command = cmd, !.options = os, !.flags = fl,
                          !.server = sv],
           pkg, NoEnv, DefaultFs(c), 0) :
        v \in BOOLEAN, cmd \in {None, Cmd_list, S_shell, S_dash, S_help},
        os \in {<<>>, <<Opt_a>>, <<Opt_a_b, Opt_a>>},
        fl \in {<<>>, <<S_h_flag>>, <<Flag_x>>, <<Flag_x, S_h_flag>>},
        sv \in {None, S_host_eu}, pkg \in BOOLEAN,
        c \in {EmptyDict, [timedelay |-> 1, commands |-> PyList(<<PyDict>>)]}} :
     \* the first positional argument is the command
     i.opts.command # None \/ i.opts.options = <<>>}

\* The version flag beside the overlaid flags, a command, and a bare and a full
\* environment and configuration
VersionInputs ==
    {Input([NoOpts EXCEPT !.version = TRUE, !.user = us, !.debug = dbg, !.command = cmd],
           FALSE, e, DefaultFs(c), 0) :
        us \in {None, User_bob}, dbg \in BOOLEAN, cmd \in {None, Cmd_list},
        e \in {NoEnv, FullEnv}, c \in {EmptyDict, FullConfig}}

\* Construction: the region hint and the legacy server URL, the device_id, the
\* commands and plugins, and the other fields
ConstructInputs ==
    {Input([NoOpts EXCEPT !.command = S_shell], FALSE, NoEnv, DefaultFs(c), 0) :
        c \in {Restrict([region |-> r, server |-> sv], K) :
                    r \in RegionHints \cup {<<>>}, sv \in ServerUrls,
                    K \in SUBSET {"region", "server"}}
              \cup {[device_id |-> d] : d \in DeviceIds}
              \cup {Restrict([commands |-> cs, plugins |-> ps], K) :
                    cs \in ListValues, ps \in ListValues,
                    K \in SUBSET {"commands", "plugins"}}
              \cup {[commands |-> PyList(<<PyDict, PyDict>>), plugins |-> PyList(<<PyDict>>),
                      debug |-> TRUE]}
              \cup SubDicts(RichConfig)}

\* The user each configuration file names, so that the file read shows
UserOf(path) ==
    IF path = Path_flag THEN User_bob ELSE IF path = Path_env THEN User_amy ELSE User_eve

\* The configuration path: the --config flag, the environment override, and
\* what each of the three paths holds
PathInputs ==
    {Input([NoOpts EXCEPT !.config = cf, !.command = S_shell], FALSE, e, f, 0) :
        cf \in {None, <<>>, Path_flag},
        e \in {NoEnv, [KEEPER_CONFIG_FILE |-> Path_env]},
        f \in UNION {{[path \in P |-> IF st[path] = "ok"
                                      THEN [state |-> "ok", json |-> [user |-> UserOf(path)]]
                                      ELSE [state |-> st[path]]] :
                        st \in [P -> {"ok", "unreadable", "malformed"}]} :
                     P \in SUBSET {S_config_json, Path_flag, Path_env}}}

\* The session: runs whose command loop performs up to MaxOps operations
SessionInputs ==
    {Input(o, FALSE, NoEnv, DefaultFs(c), MaxOps) :
        o \in {[NoOpts EXCEPT !.command = S_shell],
               [NoOpts EXCEPT !.command = Cmd_list, !.user = User_bob,
                              !.password = Pw_flag, !.debug = TRUE]},
        c \in {EmptyDict, RichConfig}}

Inputs == OverlayInputs \cup RunModeInputs \cup VersionInputs \cup ConstructInputs
          \cup PathInputs \cup SessionInputs


-----------------------------------------------------------------------------
(* The state machine: main from its first line to the process exit, with   *)
(* the operations the command loop's collaborators perform on the session. *)

NoParams == <<>>

Init ==
    \E i \in Inputs :
        /\ opts = i.opts
        /\ from_package = i.from_package
        /\ env = i.env
        /\ fs = i.fs
        /\ todo = i.todo
        /\ pc = "start"
        /\ params = NoParams
        /\ command = i.opts.command
        /\ flags = i.opts.flags
        /\ logging = [level |-> WARNING, handlers |-> FALSE, records |-> <<>>]
        /\ stdout = <<>>
        /\ exc = "none"
        /\ exit_code = 0
        /\ calls = <<>>
        /\ last = [op |-> "none"]
        /\ prev = NoParams

inputs == <<opts, from_package, env, fs>>

\* params = KeeperParams.from_config(opts.config)
FromConfig ==
    /\ pc = "start"
    /\ LET r == from_config(env, fs, opts.config, logging)
       IN  /\ logging' = r.w
           /\ params' = IF r.ok THEN r.params ELSE params
           /\ exc' = IF r.ok THEN exc ELSE r.exc
           /\ pc' = IF r.ok THEN "overlay" ELSE "crashed"
    /\ last' = [op |-> "from_config"]
    /\ prev' = params
    /\ UNCHANGED <<inputs, todo, command, flags, stdout, exit_code, calls>>

\* The flags and the environment laid over the configuration
Overlay ==
    /\ pc = "overlay"
    /\ LET r == overlay(params, opts, env, logging)
       IN  /\ logging' = r.w
           /\ params' = r.params
           /\ exc' = IF r.ok THEN exc ELSE r.exc
           /\ pc' = IF r.ok THEN "overlaid" ELSE "crashed"
    /\ last' = [op |-> "overlay"]
    /\ prev' = params
    /\ UNCHANGED <<inputs, todo, command, flags, stdout, exit_code, calls>>

\* --version: print the version and return
Version ==
    /\ pc = "overlaid"
    /\ opts.version
    /\ stdout' = Append(stdout, "version")
    /\ exit_code' = 0
    /\ pc' = "exited"
    /\ last' = [op |-> "version"]
    /\ prev' = params
    /\ UNCHANGED <<inputs, todo, params, command, flags, logging, exc, calls>>

\* -h as the first unrecognized flag is the help command; a packaged run with
\* no command is a shell
ResolveCommand ==
    /\ pc = "overlaid"
    /\ ~opts.version
    /\ LET help == flags # <<>> /\ flags[1] = S_h_flag
           c == IF help THEN S_help ELSE command
       IN  /\ flags' = IF help THEN <<>> ELSE flags
           /\ command' = IF ~Truthy(c) /\ from_package THEN S_shell ELSE c
    /\ pc' = "resolved"
    /\ last' = [op |-> "resolve_command"]
    /\ prev' = params
    /\ UNCHANGED <<inputs, todo, params, logging, stdout, exc, exit_code, calls>>

\* The usage condition testing for the help command only
WantsUsage_help_only == command = S_help

\* (opts.command or '') in {'?', ''} and (opts.command == '?' or not params.commands)
WantsUsage ==
    /\ (IF Truthy(command) THEN command ELSE <<>>) \in {S_help, <<>>}
    /\ command = S_help \/ params.commands = <<>>

\* usage(''): print the help and exit 1
Usage ==
    /\ pc = "resolved"
    /\ WantsUsage
    /\ stdout' = Append(stdout, "usage")
    /\ calls' = Append(calls, "display_command_help")
    /\ exit_code' = 1
    /\ pc' = "exited"
    /\ last' = [op |-> "usage"]
    /\ prev' = params
    /\ UNCHANGED <<inputs, todo, params, command, flags, logging, exc>>

\* The scheduled runner when a time delay and commands are configured, else
\* the command loop on the synthesized queue
Dispatch ==
    /\ pc = "resolved"
    /\ ~WantsUsage
    /\ logging' = basicConfig(logging, IF params.batch_mode THEN WARNING ELSE INFO)
    /\ IF params.timedelay >= 1 /\ params.commands # <<>>
       THEN /\ calls' = Append(calls, "runcommands")
            /\ exit_code' = 0
            /\ pc' = "exited"
            /\ params' = params
       ELSE /\ calls' = Append(calls, "loop")
            /\ params' = synthesize(params, command, flags, opts.options)
            /\ pc' = "loop"
            /\ exit_code' = exit_code
    /\ last' = [op |-> "dispatch"]
    /\ prev' = params
    /\ UNCHANGED <<inputs, todo, command, flags, stdout, exc>>

\* The values the collaborators store: opaque to this module
Secret == <<"*">>
Licenses == {NoneD, EmptyDict, [account_type |-> 1], [account_type |-> 2],
             [product_type_id |-> 1]}
UIDNames == <<"uid1", "uid2", "uid3">>
UIDs == {UIDNames[i] : i \in 1..MaxUIDs}
AuditNames == {<<"o", "p", "e", "n">>, <<"c", "o", "p", "y">>}
KwargKeys == AuditInputKeys \cup {"record_name"}
\* Calls with no attribute, with one, with an allow-listed pair, with an
\* allow-listed one beside one that is not, with the allow-list, and with all
KwargKeySets == {{}} \cup {{k} : k \in KwargKeys}
                \cup {{"record_uid", "to_username"}, {"record_uid", "record_name"},
                      AuditInputKeys, KwargKeys}
Kwargs == {[k \in K |-> <<"v", k>>] : K \in KwargKeySets}

SessionStep(op) ==
    /\ pc = "loop"
    /\ todo > 0
    /\ todo' = todo - 1
    /\ last' = op
    /\ prev' = params
    /\ UNCHANGED <<inputs, pc, command, flags, logging, stdout, exc, exit_code, calls>>

\* The authentication collaborator: the session's secrets and the license
Login ==
    \E lic \in Licenses :
        /\ SessionStep([op |-> "login"])
        /\ params' = [params EXCEPT !.session_token = Secret,
                                    !.auth_verifier = Secret,
                                    !.salt = Secret,
                                    !.iterations = 1000,
                                    !.data_key = Secret,
                                    !.rsa_key = Secret,
                                    !.device_token = Secret,
                                    !.clone_code = Secret,
                                    !.license = lic,
                                    !.settings = EmptyDict,
                                    !.enforcements = EmptyDict]

\* The synchronization collaborator: the caches and the folder tree
SyncDown ==
    \E uids \in SUBSET UIDs \ {{}} :
        /\ SessionStep([op |-> "sync_down"])
        /\ LET cache == [u \in uids |-> "v"]
           IN  params' = [params EXCEPT !.revision = @ + 1,
                                        !.record_cache = cache,
                                        !.meta_data_cache = cache,
                                        !.shared_folder_cache = cache,
                                        !.team_cache = cache,
                                        !.key_cache = cache,
                                        !.subfolder_cache = cache,
                                        !.subfolder_record_cache = cache,
                                        !.non_shared_data_cache = cache,
                                        !.folder_cache = cache,
                                        !.root_folder = Secret,
                                        !.current_folder = Secret,
                                        !.pending_share_requests = uids,
                                        !.record_history = cache,
                                        !.sync_data = FALSE]

QueueAuditEvent ==
    \E name \in AuditNames, kwargs \in Kwargs :
        /\ SessionStep([op |-> "queue_audit_event", name |-> name, kwargs |-> kwargs])
        /\ params' = queue_audit_event(params, name, kwargs)

ClearSession ==
    /\ SessionStep([op |-> "clear_session"])
    /\ params' = clear_session(params)

\* The REST collaborator: the server key the server asks for, and a new device id
KeyIds == {1, 2}
DeviceTokens == {<<65>>}

SetServerKeyId ==
    \E key_id \in KeyIds :
        /\ SessionStep([op |-> "set_server_key_id", key_id |-> key_id])
        /\ params' = [params EXCEPT !.rest_context = set_server_key_id(@, key_id)]

SetDeviceId ==
    \E device_id \in DeviceTokens :
        /\ SessionStep([op |-> "set_device_id", device_id |-> device_id])
        /\ params' = [params EXCEPT !.rest_context = set_device_id(@, device_id)]

\* cli.loop returns and the process exits 0 whatever it returned
LoopReturn_exits_zero ==
    \E errno \in {0, 1} :
        /\ pc = "loop"
        /\ exit_code' = 0
        /\ pc' = "exited"
        /\ last' = [op |-> "loop_return", errno |-> errno]
        /\ prev' = params
        /\ UNCHANGED <<inputs, todo, params, command, flags, logging, stdout, exc, calls>>

\* cli.loop returns; sys.exit(errno)
LoopReturn ==
    \E errno \in {0, 1} :
        /\ pc = "loop"
        /\ exit_code' = errno
        /\ pc' = "exited"
        /\ last' = [op |-> "loop_return", errno |-> errno]
        /\ prev' = params
        /\ UNCHANGED <<inputs, todo, params, command, flags, logging, stdout, exc, calls>>

\* An exception nothing catches: handle_exceptions in a packaged run (exit -1),
\* else the interpreter's own hook (exit 1)
Uncaught ==
    /\ pc = "crashed"
    /\ stdout' = Append(stdout, "traceback")
    /\ exit_code' = IF from_package THEN -1 ELSE 1
    /\ pc' = "exited"
    /\ last' = [op |-> "uncaught"]
    /\ prev' = params
    /\ UNCHANGED <<inputs, todo, params, command, flags, logging, exc, calls>>

Next ==
    \/ FromConfig
    \/ Overlay
    \/ Version
    \/ ResolveCommand
    \/ Usage
    \/ Dispatch
    \/ Login
    \/ SyncDown
    \/ QueueAuditEvent
    \/ ClearSession
    \/ SetServerKeyId
    \/ SetDeviceId
    \/ LoopReturn
    \/ Uncaught

Spec == Init /\ [][Next]_vars


-----------------------------------------------------------------------------
(* The claims.                                                             *)

EntityCaches == {"record_cache", "meta_data_cache", "shared_folder_cache", "team_cache",
                 "key_cache", "subfolder_cache", "subfolder_record_cache",
                 "non_shared_data_cache", "folder_cache"}

\* C1: clear_session() leaves config_filename, the passthrough config mapping,
\* login_v3 and device_id as they were, and leaves session_token None, every
\* entity cache empty, commands, event_queue and pending_share_requests empty,
\* and root_folder and current_folder None.
C1_ClearSessionFrame ==
    last.op = "clear_session" =>
        /\ params.config_filename = prev.config_filename
        /\ params.config = prev.config
        /\ params.login_v3 = prev.login_v3
        /\ params.device_id = prev.device_id
        /\ params.rest_context.device_id = prev.rest_context.device_id
        /\ params.session_token = None
        /\ \A c \in EntityCaches : DOMAIN params[c] = {}
        /\ Len(params.commands) = 0
        /\ Len(params.event_queue) = 0
        /\ Cardinality(params.pending_share_requests) = 0
        /\ params.root_folder = None
        /\ params.current_folder = None

\* A session cleared after authentication, synchronization and a queued audit
\* event, with a passthrough configuration entry, a device id and login_v3 off
C1_Witness ==
    /\ last.op = "clear_session"
    /\ prev.session_token # None
    /\ \A c \in EntityCaches : DOMAIN prev[c] # {}
    /\ prev.commands # <<>>
    /\ "theme" \in DOMAIN params.config
    /\ params.device_id # <<>>
    /\ ~params.login_v3

\* C2: clear_session() is idempotent: a clear_session() that directly follows a
\* clear_session() changes no field of the session store.
C2_ClearSessionIdempotent ==
    [][(last.op = "clear_session" /\ last'.op = "clear_session") => params' = params]_vars

\* A second clear_session() in a row, after a first one that changed the store
C2_Witness ==
    /\ last.op = "clear_session"
    /\ prev = params
    /\ params.prepare_commands
    /\ todo <= MaxOps - 2

IsEnterprise(license) ==
    /\ license # NoneD
    /\ "account_type" \in DOMAIN license
    /\ license["account_type"] = 2

\* C3: queue_audit_event(name, **attributes) changes nothing unless the license
\* is an enterprise license (account_type 2); with one, event_queue grows by one
\* record at its tail, the earlier records keep their places, the record has the
\* given name and its inputs are exactly the call's attributes with a key in
\* {record_uid, file_format, attachment_id, to_username}, with their values.
C3_QueueAuditEvent ==
    last.op = "queue_audit_event" =>
        IF IsEnterprise(prev.license)
        THEN LET n == Len(prev.event_queue)
                 rec == params.event_queue[n + 1]
                 kept == DOMAIN last.kwargs
                         \cap {"record_uid", "file_format", "attachment_id", "to_username"}
             IN  /\ Len(params.event_queue) = n + 1
                 /\ SubSeq(params.event_queue, 1, n) = prev.event_queue
                 /\ rec.audit_event_type = last.name
                 /\ DOMAIN rec.inputs = kept
                 /\ \A k \in kept : rec.inputs[k] = last.kwargs[k]
                 /\ [params EXCEPT !.event_queue = prev.event_queue] = prev
        ELSE params = prev

\* An event queued behind an earlier one, from a call that also passes an
\* attribute outside the allow-list
C3_Witness ==
    /\ last.op = "queue_audit_event"
    /\ IsEnterprise(prev.license)
    /\ Len(prev.event_queue) >= 1
    /\ "record_name" \in DOMAIN last.kwargs
    /\ "record_uid" \in DOMAIN last.kwargs

\* The run reads the default configuration file, and the file parses
DefaultConfigRead ==
    /\ ~Truthy(opts.config)
    /\ "KEEPER_CONFIG_FILE" \notin DOMAIN env
    /\ S_config_json \in DOMAIN fs
    /\ fs[S_config_json].state = "ok"

DefaultConfig == fs[S_config_json].json

HintPresent(cfg) == "region" \in DOMAIN cfg /\ cfg["region"] # <<>>

\* C4: a field given by a command-line flag holds the flag's value after the
\* overlay (server: the API URL built from the host), whatever the environment
\* and the configuration say, and the overlay does not fail.
C4_FlagWins ==
    last.op = "overlay" =>
        /\ pc = "overlaid"
        /\ Truthy(opts.server) => params.server = S_v2_prefix \o opts.server \o S_v2_suffix
        /\ Truthy(opts.user) => params.user = opts.user
        /\ Truthy(opts.password) => params.password = opts.password
        /\ opts.debug => params.debug
        /\ opts.batch_mode => params.batch_mode
        /\ opts.login_v3 = Lv3_t => params.login_v3
        /\ opts.login_v3 = Lv3_false => ~params.login_v3

NoOverlayFlag ==
    /\ ~Truthy(opts.server) /\ ~Truthy(opts.user) /\ ~Truthy(opts.password)
    /\ ~opts.debug /\ ~opts.batch_mode /\ ~Truthy(opts.login_v3)

\* C5: with no flag, a field that the environment and the configuration both set
\* holds the environment's value, and a field only the configuration sets holds
\* the configuration's value. The user is compared in lower case, as the store
\* keeps it, and the server by its host, for a configured server that names a
\* region's host and is not overridden by a region hint.
C5_LowerLevels ==
    (last.op = "overlay" /\ pc = "overlaid" /\ NoOverlayFlag /\ DefaultConfigRead) =>
        LET cfg == DefaultConfig
            cfg_host == lower(urlparse(cfg["server"]).netloc)
        IN  /\ "user" \in DOMAIN cfg =>
                    params.user = lower(IF "KEEPER_USER" \in DOMAIN env
                                        THEN env["KEEPER_USER"] ELSE cfg["user"])
            /\ "password" \in DOMAIN cfg =>
                    params.password = IF "KEEPER_PASSWORD" \in DOMAIN env
                                      THEN env["KEEPER_PASSWORD"] ELSE cfg["password"]
            /\ "debug" \in DOMAIN cfg => params.debug = cfg["debug"]
            /\ "batch_mode" \in DOMAIN cfg => params.batch_mode = cfg["batch_mode"]
            /\ "login_v3" \in DOMAIN cfg => params.login_v3 = cfg["login_v3"]
            /\ ("server" \in DOMAIN cfg /\ ~HintPresent(cfg)
                    /\ \E r \in KeeperRegion : REGION_SERVERS[r] = cfg_host) =>
                    urlparse(params.server).netloc = cfg_host

\* C6: a single command that is neither 'shell', '-' nor '?', with no
\* unrecognized flag, reaches the command loop with batch_mode on and "q" as the
\* last queue entry; with no options the queue is [command, "q"], with options
\* its first entry is the command, the separator and the quoted options.
C6_OneShot ==
    (last.op = "dispatch" /\ pc = "loop" /\ Truthy(opts.command)
        /\ opts.command \notin {S_shell, S_dash, S_help} /\ opts.flags = <<>>) =>
        LET quoted == [i \in DOMAIN opts.options |-> shlex_quote(opts.options[i])]
        IN  /\ params.batch_mode
            /\ Len(params.commands) = 2
            /\ params.commands[2] = S_q
            /\ params.commands[1] = IF opts.options = <<>>
                                    THEN opts.command
                                    ELSE opts.command \o S_sep \o join(S_space, quoted)

\* C7: construction fails exactly when commands or plugins is supplied and is
\* not a list of mappings; no device_id string makes it fail, and a constructed
\* store holds the decoded device_id bytes.
C7_ConstructionFailsOnlyOnShape ==
    (last.op = "from_config" /\ DefaultConfigRead) =>
        LET cfg == DefaultConfig
            bad(k) == k \in DOMAIN cfg /\ ~IsListOfDicts(cfg[k])
        IN  /\ pc = "crashed" <=> (bad("commands") \/ bad("plugins"))
            /\ (pc = "overlay" /\ "device_id" \in DOMAIN cfg) =>
                    params.device_id = urlsafe_b64decode_padded(cfg["device_id"]).bytes

Rest_com == S_https \o <<":", "/", "/">> \o S_host_com \o S_rest_path
Rest_eu == S_https \o <<":", "/", "/">> \o S_host_eu \o S_rest_path

SameIgnoringCase(a, b) ==
    Len(a) = Len(b) /\ \A i \in DOMAIN a : lower_char(a[i]) = lower_char(b[i])

Warnings == {i \in DOMAIN logging.records : logging.records[i].level = WARNING}

\* C8: a region hint that is COM or EU in any letter case resolves to that
\* region, with the base URL https://<the region's host>/api/rest/; any other
\* non-empty hint resolves to COM with exactly one warning, and raises no error.
C8_RegionByHint ==
    (last.op = "from_config" /\ DefaultConfigRead /\ HintPresent(DefaultConfig)) =>
        LET cfg == DefaultConfig
            hint == cfg["region"]
            ctx == params.rest_context
        IN  /\ DOMAIN cfg \subseteq {"region", "server"} => pc = "overlay"
            /\ pc = "overlay" =>
                /\ SameIgnoringCase(hint, S_COM) =>
                        /\ ctx.region = "COM"
                        /\ server_base(ctx) = Rest_com
                        /\ params.server = Rest_com
                        /\ Warnings = {}
                /\ SameIgnoringCase(hint, S_EU) =>
                        /\ ctx.region = "EU"
                        /\ server_base(ctx) = Rest_eu
                        /\ params.server = Rest_eu
                        /\ Warnings = {}
                /\ (~SameIgnoringCase(hint, S_COM) /\ ~SameIgnoringCase(hint, S_EU)) =>
                        /\ ctx.region = "COM"
                        /\ server_base(ctx) = Rest_com
                        /\ Cardinality(Warnings) = 1

\* A mixed-case hint resolved to EU beside a legacy server URL of the other region
C8_Witness ==
    /\ last.op = "from_config"
    /\ pc = "overlay"
    /\ DefaultConfigRead
    /\ HintPresent(DefaultConfig)
    /\ DefaultConfig["region"] = <<"e", "U">>
    /\ "server" \in DOMAIN DefaultConfig
    /\ DefaultConfig["server"] = Url_com_v2
    /\ params.rest_context.region = "EU"

\* The host of a URL: its network location without user information and port,
\* in lower case
Hostname(url) ==
    LET netloc == urlparse(url).netloc
        at == find(netloc, "@")
        hostport == from(netloc, at)
    IN  lower(before(hostport, ":"))

\* C9: a present region hint alone decides the region; with no hint and a legacy
\* server URL the region is the one whose host is the URL's host, or COM with a
\* warning when the URL's host is no region's host; with neither it is COM.
C9_ResolutionOrder ==
    (last.op = "from_config" /\ pc = "overlay" /\ DefaultConfigRead) =>
        LET cfg == DefaultConfig
            region == params.rest_context.region
            server == IF "server" \in DOMAIN cfg THEN cfg["server"] ELSE <<>>
            host_known == \E r \in KeeperRegion : REGION_SERVERS[r] = Hostname(server)
        IN  IF HintPresent(cfg)
            THEN region = IF SameIgnoringCase(cfg["region"], S_EU) THEN "EU" ELSE "COM"
            ELSE IF server # <<>>
            THEN IF host_known
                 THEN REGION_SERVERS[region] = Hostname(server)
                 ELSE region = "COM" /\ Cardinality(Warnings) = 1
            ELSE region = "COM"

\* C10: the configuration path is the --config argument when one is given, else
\* the environment override when it is set, else config.json.
C10_PathPrecedence ==
    (last.op = "from_config" /\ pc = "overlay") =>
        params.config_filename =
            IF Truthy(opts.config) THEN opts.config
            ELSE IF "KEEPER_CONFIG_FILE" \in DOMAIN env THEN env["KEEPER_CONFIG_FILE"]
            ELSE S_config_json

\* The path the run reads its configuration from
ConfigPath == config_path(env, opts.config)

\* The file at the configuration path is missing, unreadable or malformed
ConfigUnusable == ConfigPath \notin DOMAIN fs \/ fs[ConfigPath].state # "ok"

\* C11: when the configuration file is missing, cannot be read or does not
\* parse, loading raises no exception, the bootstrap goes on to the overlay, and
\* the session store is, apart from config_filename, the one built from an empty
\* mapping: every field holds its built-in default.
C11_DegradeToDefault ==
    (last.op = "from_config" /\ ConfigUnusable) =>
        /\ pc = "overlay"
        /\ exc = "none"
        /\ LET built == KeeperParams_init(<<>>, EmptyDict, logging)
           IN  /\ built.ok
               /\ [params EXCEPT !.config_filename = <<>>] = built.params
        /\ params.config = EmptyDict
        /\ params.user = <<>> /\ params.password = <<>>
        /\ params.server = Rest_com /\ params.rest_context.region = "COM"
        /\ params.mfa_type = S_device_token
        /\ params.login_v3 /\ ~params.batch_mode /\ ~params.debug
        /\ params.timedelay = 0 /\ params.logout_timer = 0
        /\ params.device_id = <<>>
        /\ params.commands = <<>> /\ params.plugins = <<>>

\* A malformed file at the path the --config flag names, loaded
C11_Witness ==
    /\ last.op = "from_config"
    /\ pc = "overlay"
    /\ opts.config = Path_flag
    /\ ConfigPath = Path_flag
    /\ Path_flag \in DOMAIN fs
    /\ fs[Path_flag].state = "malformed"

\* C12: writing the server accessor with a full URL succeeds, and afterwards the
\* store's server and the resolver's base URL both equal that URL, also after
\* later operations; the store's server and the resolver's base URL never
\* disagree.
C12_ServerOverride ==
    /\ (last.op = "overlay" /\ Truthy(opts.server)) => pc = "overlaid"
    /\ (pc \in {"overlaid", "resolved", "loop", "exited"} /\ params # NoParams
            /\ Truthy(opts.server)) =>
            LET v == S_v2_prefix \o opts.server \o S_v2_suffix
            IN  get_server(params) = v /\ server_base(params.rest_context) = v
    /\ params # NoParams => get_server(params) = server_base(params.rest_context)

\* C13: in every state of a constructed store, region reads as the resolver's
\* region name, domain as the host of the base URL, url as the base URL's scheme
\* and host with the path '/', and server as the base URL.
C13_DerivedAccessors ==
    (params # NoParams /\ pc # "crashed" /\ last.op # "uncaught") =>
        LET ctx == params.rest_context
            base == server_base(ctx)
        IN  /\ get_region(params) = RegionName(ctx.region)
            /\ get_domain(params) = REGION_SERVERS[ctx.region]
            /\ get_url(params) = S_https \o <<":", "/", "/">> \o REGION_SERVERS[ctx.region] \o <<"/">>
            /\ get_server(params) = base

\* The store as construction leaves it in this run
Constructed ==
    from_config(env, fs, opts.config, [level |-> WARNING, handlers |-> FALSE, records |-> <<>>])

Entered(callee) == \E i \in DOMAIN calls : calls[i] = callee

\* C14: with the version flag, whatever the other flags and the environment, the
\* run prints the version and exits with code 0, enters neither the command loop
\* nor the scheduled runner, and exits with every field of the store as
\* construction left it.
C14_VersionFirst ==
    (opts.version /\ Constructed.ok) =>
        /\ pc # "crashed"
        /\ ~Entered("loop") /\ ~Entered("runcommands")
        /\ pc = "exited" =>
            /\ stdout = <<"version">>
            /\ exit_code = 0
            /\ params = Constructed.params

\* The configuration sets timedelay >= 1 and a non-empty commands list
ScheduledConfig ==
    /\ DefaultConfigRead
    /\ "timedelay" \in DOMAIN DefaultConfig /\ DefaultConfig["timedelay"] >= 1
    /\ "commands" \in DOMAIN DefaultConfig
    /\ IsListOfDicts(DefaultConfig["commands"])
    /\ DefaultConfig["commands"].items # <<>>

Count(callee) == Cardinality({i \in DOMAIN calls : calls[i] = callee})

\* C15: with timedelay >= 1 and a non-empty commands list configured, a run that
\* reaches the run-mode decision enters the scheduled runner and never the
\* command loop; every run enters at most one of the two, at most once.
C15_ScheduledHandOff ==
    /\ (ScheduledConfig /\ last.op \in {"usage", "dispatch"}) =>
            Entered("runcommands") /\ ~Entered("loop")
    /\ Count("runcommands") + Count("loop") <= 1

\* The resolved command is the help command, or there is no command and the
\* store holds no commands
HelpOrEmpty == command = S_help \/ (~Truthy(command) /\ params.commands = <<>>)

\* C16: once the command is resolved, the help command ('?', or -h as the first
\* unrecognized flag), and no command with no commands in the store, lead to the
\* usage text and a nonzero exit code in the next step, with no command appended
\* and neither the command loop nor the scheduled runner entered, then or later.
C16_HelpAndEmpty ==
    /\ [][(pc = "resolved" /\ HelpOrEmpty) =>
            /\ pc' = "exited"
            /\ stdout' = Append(stdout, "usage")
            /\ exit_code' # 0
            /\ params' = params
            /\ ~Entered("loop")' /\ ~Entered("runcommands")']_vars
    /\ [](last.op = "usage" => (pc = "exited" /\ exit_code # 0 /\ params.commands = <<>>
                                 /\ ~Entered("loop") /\ ~Entered("runcommands")))

\* The usage shown for -h given as the first unrecognized flag beside a command
C16_Witness ==
    /\ last.op = "usage"
    /\ opts.flags # <<>> /\ opts.flags[1] = S_h_flag
    /\ opts.command = Cmd_list
    /\ command = S_help

\* The usage shown for a run with no command
C16_WitnessEmpty ==
    /\ last.op = "usage"
    /\ opts.command = None
    /\ ~from_package
    /\ command = None

\* C17: a run that enters the command loop enters it once, with the store the
\* bootstrap finished, and exits with the code the loop returned; an exit with
\* code 0 follows a loop that returned 0, the version flag, or the scheduled
\* runner.
C17_ExitCode ==
    /\ Entered("loop") => (Count("loop") = 1 /\ pc \in {"loop", "exited"})
    /\ (last.op = "dispatch" /\ pc = "loop") =>
            params = synthesize(prev, command, flags, opts.options)
    /\ last.op = "loop_return" =>
            (Entered("loop") /\ pc = "exited" /\ exit_code = last.errno)
    /\ (pc = "exited" /\ exit_code = 0) =>
            \/ last.op = "loop_return" /\ last.errno = 0
            \/ last.op = "version" /\ opts.version
            \/ Entered("runcommands")

\* The loop returned 1 after operations on the session, and the process exited 1
C17_Witness ==
    /\ last.op = "loop_return"
    /\ last.errno = 1
    /\ exit_code = 1
    /\ todo < MaxOps
    /\ params.commands = <<>>

\* The resolver of the store p exists and has its store_server_key flag set
Dirty(p) == p # NoParams /\ store_server_key(p.rest_context)

ResolverWrites == {"set_server_key_id", "set_device_id"}

\* C18: the resolver's store_server_key flag is false when construction ends,
\* also when a device_id was passed to the constructor; a write of server_key_id
\* or device_id sets it; no other operation changes it, so once true it stays
\* true.
C18_DirtyFlag ==
    /\ [](last.op = "from_config" => ~Dirty(params))
    /\ [][IF last'.op \in ResolverWrites
           THEN Dirty(params')
           ELSE Dirty(params') = Dirty(params)]_vars

\* A session cleared after a write of server_key_id, on a store constructed with
\* a device_id: the flag is still set
C18_Witness ==
    /\ last.op = "clear_session"
    /\ Dirty(params)
    /\ params.device_id # <<>>
    /\ params.rest_context.server_key_id = 2
    /\ params.rest_context.device_id = params.device_id

\* C19: the store's user is in lower case in every state from the overlay on,
\* whether it came from the configuration or from the --user flag (it is empty
\* after clear_session).
C19_UserLowercase ==
    (params # NoParams /\ pc \in {"overlaid", "resolved", "loop", "exited"}) =>
        /\ params.user = lower(params.user)
        /\ last.op = "clear_session" => params.user = <<>>

\* C20: a store just constructed has no commands, no plugins and debug off,
\* whatever commands, plugins and debug the configuration supplies; so the queue
\* is empty when the run mode is decided, and the queue handed to the command
\* loop holds only what the bootstrap appended.
C20_ConstructionDiscards ==
    /\ (last.op = "from_config" /\ pc = "overlay") =>
            (params.commands = <<>> /\ params.plugins = <<>> /\ ~params.debug)
    /\ pc \in {"overlay", "overlaid", "resolved"} => params.commands = <<>>
    /\ (last.op = "dispatch" /\ pc = "loop") =>
            \A i \in DOMAIN params.commands :
                params.commands[i] \in {one_shot(command, flags, opts.options), S_q}

\* A store constructed from a configuration that supplies commands, plugins and
\* debug
C20_Witness ==
    /\ last.op = "from_config"
    /\ pc = "overlay"
    /\ DefaultConfigRead
    /\ {"commands", "plugins", "debug"} \subseteq DOMAIN DefaultConfig
    /\ DefaultConfig["commands"].items # <<>>
    /\ DefaultConfig["plugins"].items # <<>>
    /\ DefaultConfig["debug"]
    /\ logging.level = DEBUG

=============================================================================
